---- MODULE Spec2Model ----
(***************************************************************************)
(* Read-only weather-station HTTP API (app/main.py, app/exceptions.py,     *)
(* app/exception_handlers.py, app/schemas.py).                             *)
(*                                                                         *)
(* One request is followed through the framework's parameter parsing, the  *)
(* handler's limit check, sqlite3.connect, the one aiosql lookup the       *)
(* handler selects, conn.close(), and the materialisation or the raised    *)
(* exception turned into a JSON response by the registered handlers.       *)
(*                                                                         *)
(* The SQL behind `queries` (app/database.py and its .sql file) is not     *)
(* among the sources; the lookups are modelled from the written design     *)
(* (pipeline scope -> date -> cursor -> limit).                            *)
(***************************************************************************)
EXTENDS Integers, Sequences, FiniteSets, TLC

\* ------------------------------------------------------------------ bounds
MaxObs == 3

\* ------------------------------------------------------- program constants
MinLimit == 1
MaxLimit == 100
HTTP_404_NOT_FOUND == 404
HTTP_422_UNPROCESSABLE_ENTITY == 422

\* ------------------------------------------------------------ value domains
\* Python's None, as passed for an omitted query parameter.
None == "None"

\* ids in insertion order: the i-th stored observation has id ObsIds[i]
ObsIds == <<"obs_1", "obs_2", "obs_3", "obs_4", "obs_5">>

StationIds == {1, 2}
StationNames == <<"station_1", "station_2">>

\* observation_time: 0 and 1 are two instants of 2019-07-11, 2 is on 2019-07-12
Times == {0, 1, 2}
DateOf(t) == IF t < 2 THEN "2019-07-11" ELSE "2019-07-12"
Dates == {DateOf(t) : t \in Times}

\* a `created` string that does not parse as YYYY-MM-DD
MalformedDate == "11/07/2019"

\* values of the limit query parameter (already an int)
Limits == {0, 1, 2, 100, 101}

WeatherEndpoints == {"/weather", "/stations/{id}/weather"}

VARIABLES
    stations,    \* rows of the stations table: <<id, name, latitude, longitude>>
    observations,\* rows of the observations table, in insertion (= id) order:
                 \*   <<id, station_id, observation_time>>
    pc,          \* position of the request in flight
    req,         \* the request: endpoint, path id, query parameters
    conn,        \* the request's sqlite3 connection: "none" | "open" | "closed"
    executed,    \* names of the lookups run for this request, in order
    results,     \* what the lookup returned
    response     \* the HTTP response: [status_code, body]

vars == <<stations, observations, pc, req, conn, executed, results, response>>

\* ------------------------------------------------------------------ helpers
Min(a, b) == IF a < b THEN a ELSE b

\* Python truthiness of an Optional[str] / Optional[date] parameter
Truthy(v) == v # None /\ v # ""

NoRequest == [endpoint |-> "none", id |-> 0, starting_after |-> None,
              created |-> None, limit |-> 0]
NoResponse == [status_code |-> 0, body |-> <<>>]


\* --------------------------------------------------------------- schemas.py
StationFields == <<"id", "name", "latitude", "longitude">>
\* the sensor readings (all optional) are left out of the rows of this model
ObservationFields == <<"id", "station_id", "observation_time">>

\* Model(**{key: row[i] for i, key in enumerate(Model.__fields__.keys())})
Materialize(fields, row) ==
    [k \in {fields[i] : i \in DOMAIN fields} |->
        row[CHOOSE i \in DOMAIN fields : fields[i] = k]]

MaterializeAll(fields, rows) == [i \in DOMAIN rows |-> Materialize(fields, rows[i])]

\* ------------------------------------------------------------ exceptions.py
NotFoundException ==
    [status_code |-> HTTP_404_NOT_FOUND, detail |-> "Resource not found.",
     type |-> "api_error"]

BadQueryParameterException ==
    [status_code |-> HTTP_422_UNPROCESSABLE_ENTITY, detail |-> "Bad query parameter.",
     type |-> "api_error"]

\* ---------------------------------------------------- exception_handlers.py
not_found_exception_handler(exception) ==
    [status_code |-> exception.status_code,
     body |-> [message |-> exception.detail, type |-> exception.type,
               status_code |-> exception.status_code]]

bad_query_parameter_exception_handler(exception) ==
    [status_code |-> exception.status_code,
     body |-> [message |-> exception.detail, type |-> exception.type,
               status_code |-> exception.status_code]]

\* A query parameter that does not parse to its annotated type never reaches
\* the handler: the framework answers, and no handler is registered for its
\* validation error, so the body is the framework's own.
RequestValidationResponse ==
    [status_code |-> HTTP_422_UNPROCESSABLE_ENTITY,
     body |-> [detail |-> "value is not a valid date"]]

\* An exception no handler is registered for leaves the application as a 500.
UnhandledErrorResponse ==
    [status_code |-> 500,
     body |-> [error |-> "Internal Server Error"]]

\* ------------------------------------------------- storage lookups (queries)
RowId(row) == row[1]
RowStation(row) == row[2]
RowTime(row) == row[3]

\* scope: the rows of one station, insertion order kept
ForStation(rows, station_id) ==
    SelectSeq(rows, LAMBDA r : RowStation(r) = station_id)

RECURSIVE ByTime(_, _)
\* rows whose time is >= t, ascending by time, insertion order within a time
ByTime(rows, t) ==
    IF t \notin Times THEN <<>>
    ELSE SelectSeq(rows, LAMBDA r : RowTime(r) = t) \o ByTime(rows, t + 1)

\* date: the rows of one calendar date, by observation_time then id
CreatedAt(rows, created_at) ==
    ByTime(SelectSeq(rows, LAMBDA r : DateOf(RowTime(r)) = created_at), 0)

\* cursor: the rows strictly after the row with the given id; none when the
\* id is not among the rows
StartingAfter(rows, id) ==
    IF \E i \in DOMAIN rows : RowId(rows[i]) = id
    THEN LET i == CHOOSE j \in DOMAIN rows : RowId(rows[j]) = id
         IN  SubSeq(rows, i + 1, Len(rows))
    ELSE <<>>

\* limit: the first `limit` rows
Limit(rows, limit) == SubSeq(rows, 1, Min(limit, Len(rows)))

get_observations(limit) == Limit(observations, limit)
get_observations_starting_after(limit, id) ==
    Limit(StartingAfter(observations, id), limit)
get_observations_created_at(limit, created_at) ==
    Limit(CreatedAt(observations, created_at), limit)
get_observations_created_at_starting_after(limit, created_at, id) ==
    Limit(StartingAfter(CreatedAt(observations, created_at), id), limit)

get_observations_for_station(limit, station_id) ==
    Limit(ForStation(observations, station_id), limit)
get_observations_for_station_starting_after(limit, station_id, id) ==
    Limit(StartingAfter(ForStation(observations, station_id), id), limit)
get_observations_for_station_created_at(limit, station_id, created_at) ==
    Limit(CreatedAt(ForStation(observations, station_id), created_at), limit)
get_observations_for_station_created_at_starting_after(limit, station_id, created_at, id) ==
    Limit(StartingAfter(CreatedAt(ForStation(observations, station_id), created_at), id),
          limit)

queries_get_stations == stations

\* one row, or no row (written <<>>, falsy like Python's None) when there is none
queries_get_station(id) ==
    IF \E i \in DOMAIN stations : stations[i][1] = id
    THEN stations[CHOOSE i \in DOMAIN stations : stations[i][1] = id]
    ELSE <<>>


\* ------------------------------------------------------------------ main.py
\* slips of the limit check: the lower bound forgotten; `and` written for `or`
LimitOutOfRange_upper_only(limit) == limit > MaxLimit
LimitOutOfRange_and(limit) == limit > MaxLimit /\ limit < MinLimit

\* `if limit > 100 or limit < 1`
LimitOutOfRange(limit) == limit > MaxLimit \/ limit < MinLimit

\* slip: `or` written for `and` in the first test of the chain
weather_or(starting_after, created, limit) ==
    IF Truthy(starting_after) \/ Truthy(created)
    THEN [name |-> "get_observations_created_at_starting_after",
          rows |-> get_observations_created_at_starting_after(limit, created, starting_after)]
    ELSE [name |-> "get_observations",
          rows |-> get_observations(limit)]

\* slips of GET /weather: the cursor not passed on where both parameters are
\* given; the cursor not passed on where it is the only parameter
weather_cursor_dropped(starting_after, created, limit) ==
    IF Truthy(starting_after) /\ Truthy(created)
    THEN [name |-> "get_observations_created_at_starting_after",
          rows |-> get_observations_created_at(limit, created)]
    ELSE IF Truthy(starting_after)
    THEN [name |-> "get_observations_starting_after",
          rows |-> get_observations_starting_after(limit, starting_after)]
    ELSE IF Truthy(created)
    THEN [name |-> "get_observations_created_at",
          rows |-> get_observations_created_at(limit, created)]
    ELSE [name |-> "get_observations",
          rows |-> get_observations(limit)]

weather_cursor_ignored(starting_after, created, limit) ==
    IF Truthy(starting_after) /\ Truthy(created)
    THEN [name |-> "get_observations_created_at_starting_after",
          rows |-> get_observations_created_at_starting_after(limit, created, starting_after)]
    ELSE IF Truthy(starting_after)
    THEN [name |-> "get_observations_starting_after",
          rows |-> get_observations(limit)]
    ELSE IF Truthy(created)
    THEN [name |-> "get_observations_created_at",
          rows |-> get_observations_created_at(limit, created)]
    ELSE [name |-> "get_observations",
          rows |-> get_observations(limit)]

\* GET /weather: the lookup the if/elif chain selects, and its rows
weather(starting_after, created, limit) ==
    IF Truthy(starting_after) /\ Truthy(created)
    THEN [name |-> "get_observations_created_at_starting_after",
          rows |-> get_observations_created_at_starting_after(limit, created, starting_after)]
    ELSE IF Truthy(starting_after)
    THEN [name |-> "get_observations_starting_after",
          rows |-> get_observations_starting_after(limit, starting_after)]
    ELSE IF Truthy(created)
    THEN [name |-> "get_observations_created_at",
          rows |-> get_observations_created_at(limit, created)]
    ELSE [name |-> "get_observations",
          rows |-> get_observations(limit)]

\* slips of the station-scoped handler: a branch pasted from GET /weather with
\* the unscoped lookup left in it
station_weather_plain_unscoped(id, starting_after, created, limit) ==
    IF Truthy(starting_after) /\ Truthy(created)
    THEN [name |-> "get_observations_for_station_created_at_starting_after",
          rows |-> get_observations_for_station_created_at_starting_after(
                       limit, id, created, starting_after)]
    ELSE IF Truthy(starting_after)
    THEN [name |-> "get_observations_for_station_starting_after",
          rows |-> get_observations_for_station_starting_after(limit, id, starting_after)]
    ELSE IF Truthy(created)
    THEN [name |-> "get_observations_for_station_created_at",
          rows |-> get_observations_for_station_created_at(limit, id, created)]
    ELSE [name |-> "get_observations_for_station",
          rows |-> get_observations(limit)]

station_weather_created_unscoped(id, starting_after, created, limit) ==
    IF Truthy(starting_after) /\ Truthy(created)
    THEN [name |-> "get_observations_for_station_created_at_starting_after",
          rows |-> get_observations_for_station_created_at_starting_after(
                       limit, id, created, starting_after)]
    ELSE IF Truthy(starting_after)
    THEN [name |-> "get_observations_for_station_starting_after",
          rows |-> get_observations_for_station_starting_after(limit, id, starting_after)]
    ELSE IF Truthy(created)
    THEN [name |-> "get_observations_for_station_created_at",
          rows |-> get_observations_created_at(limit, created)]
    ELSE [name |-> "get_observations_for_station",
          rows |-> get_observations_for_station(limit, id)]

\* GET /stations/{id}/weather: the same chain over the station-scoped lookups
station_weather(id, starting_after, created, limit) ==
    IF Truthy(starting_after) /\ Truthy(created)
    THEN [name |-> "get_observations_for_station_created_at_starting_after",
          rows |-> get_observations_for_station_created_at_starting_after(
                       limit, id, created, starting_after)]
    ELSE IF Truthy(starting_after)
    THEN [name |-> "get_observations_for_station_starting_after",
          rows |-> get_observations_for_station_starting_after(limit, id, starting_after)]
    ELSE IF Truthy(created)
    THEN [name |-> "get_observations_for_station_created_at",
          rows |-> get_observations_for_station_created_at(limit, id, created)]
    ELSE [name |-> "get_observations_for_station",
          rows |-> get_observations_for_station(limit, id)]

\* the lookup a handler runs between connect and close
Lookup(r) ==
    CASE r.endpoint = "/weather" ->
            weather(r.starting_after, r.created, r.limit)
      [] r.endpoint = "/stations/{id}/weather" ->
            station_weather(r.id, r.starting_after, r.created, r.limit)
      [] r.endpoint = "/stations" ->
            [name |-> "get_stations", rows |-> queries_get_stations]
      [] r.endpoint = "/stations/{id}" ->
            [name |-> "get_station", rows |-> queries_get_station(r.id)]

\* slip: the `if not results` check left out of a weather handler
weather_result_no_404(rows) ==
    [status_code |-> 200, body |-> MaterializeAll(ObservationFields, rows)]

\* what a weather handler does with its rows after conn.close()
weather_result(rows) ==
    IF rows = <<>>
    THEN not_found_exception_handler(NotFoundException)
    ELSE [status_code |-> 200, body |-> MaterializeAll(ObservationFields, rows)]

\* get_stations returns the list it built, whatever its length
get_stations_result(rows) ==
    [status_code |-> 200, body |-> MaterializeAll(StationFields, rows)]

\* get_station: `if station: ... else: raise NotFoundException()`
get_station_result(station) ==
    IF station # <<>>
    THEN [status_code |-> 200, body |-> Materialize(StationFields, station)]
    ELSE not_found_exception_handler(NotFoundException)

Result(r, rows) ==
    CASE r.endpoint \in WeatherEndpoints -> weather_result(rows)
      [] r.endpoint = "/stations" -> get_stations_result(rows)
      [] r.endpoint = "/stations/{id}" -> get_station_result(rows)

\* ------------------------------------------------------------ the requests
\* starting_after as requested: omitted, empty, or the id the first or the second
\* stored observation would have (an unknown id where fewer are stored)
StartingAfterValues == {None, "", ObsIds[1], ObsIds[2]}

\* created as requested: omitted, malformed, or one of the two dates (a date
\* with no observation where every stored time is of the other date)
CreatedValues == {None, MalformedDate} \cup Dates

\* parameters an endpoint does not take are kept at their defaults
Requests ==
    {[endpoint |-> ep, id |-> id, starting_after |-> sa, created |-> cr, limit |-> lim] :
        ep \in {"/weather"}, id \in {0},
        sa \in StartingAfterValues, cr \in CreatedValues, lim \in Limits}
    \cup
    {[endpoint |-> ep, id |-> id, starting_after |-> sa, created |-> cr, limit |-> lim] :
        ep \in {"/stations/{id}/weather"}, id \in StationIds,
        sa \in StartingAfterValues, cr \in CreatedValues, lim \in Limits}
    \cup
    {[endpoint |-> ep, id |-> id, starting_after |-> None, created |-> None, limit |-> 0] :
        ep \in {"/stations/{id}"}, id \in StationIds}
    \cup
    {[endpoint |-> "/stations", id |-> 0, starting_after |-> None, created |-> None,
      limit |-> 0]}

StationRow(i) == <<i, StationNames[i], 40, 0 - 86>>
StationTables == {[i \in 1..n |-> StationRow(i)] : n \in 0..Cardinality(StationIds)}

\* every observation references an existing station; ids follow insertion order
ObservationTables(nStations) ==
    UNION {{[i \in 1..n |-> <<ObsIds[i], f[i][1], f[i][2]>>] :
                f \in [1..n -> (1..nStations) \X Times]} : n \in 0..MaxObs}

Init ==
    /\ stations \in StationTables
    /\ observations \in ObservationTables(Len(stations))
    /\ pc = "idle"
    /\ req = NoRequest
    /\ conn = "none"
    /\ executed = <<>>
    /\ results = <<>>
    /\ response = NoResponse

\* A request arrives.  The framework parses the query string against the
\* handler's signature before the handler runs.
Request(r) ==
    /\ pc = "idle"
    /\ req' = r
    /\ UNCHANGED <<conn, executed, results>>
    /\ IF r.created = MalformedDate
       THEN /\ response' = RequestValidationResponse
            /\ pc' = "done"
       ELSE /\ response' = NoResponse
            /\ pc' = IF r.endpoint \in WeatherEndpoints THEN "check_limit" ELSE "connect"
    /\ UNCHANGED <<stations, observations>>

\* the first statement of both weather handlers
CheckLimit ==
    /\ pc = "check_limit"
    /\ IF LimitOutOfRange(req.limit)
       THEN /\ response' = bad_query_parameter_exception_handler(BadQueryParameterException)
            /\ pc' = "done"
       ELSE /\ response' = response
            /\ pc' = "connect"
    /\ UNCHANGED <<stations, observations, req, conn, executed, results>>

\* conn = sqlite3.connect(database_path)
Connect ==
    /\ pc = "connect"
    /\ conn' = "open"
    /\ pc' = "query"
    /\ UNCHANGED <<stations, observations, req, executed, results, response>>

\* results = queries.<lookup>(conn, ...)
Query ==
    /\ pc = "query"
    /\ LET lookup == Lookup(req)
       IN  /\ executed' = Append(executed, lookup.name)
           /\ results' = lookup.rows
    /\ pc' = "close"
    /\ UNCHANGED <<stations, observations, req, conn, response>>

\* the lookup raises (sqlite3.Error): the exception leaves the handler from
\* the line of the call, and no handler is registered for it
QueryError ==
    /\ pc = "query"
    /\ executed' = Append(executed, Lookup(req).name)
    /\ response' = UnhandledErrorResponse
    /\ pc' = "done"
    /\ UNCHANGED <<stations, observations, req, conn, results>>

\* conn.close()
Close ==
    /\ pc = "close"
    /\ conn' = "closed"
    /\ pc' = "respond"
    /\ UNCHANGED <<stations, observations, req, executed, results, response>>

\* the rest of the handler: NotFoundException or the materialised rows
Respond ==
    /\ pc = "respond"
    /\ response' = Result(req, results)
    /\ pc' = "done"
    /\ UNCHANGED <<stations, observations, req, conn, executed, results>>

\* the response has left; the request's locals are gone and the next request
\* starts from nothing (no state is shared between requests)
Finish ==
    /\ pc = "done"
    /\ pc' = "idle"
    /\ req' = NoRequest
    /\ conn' = "none"
    /\ executed' = <<>>
    /\ results' = <<>>
    /\ response' = NoResponse
    /\ UNCHANGED <<stations, observations>>

Next ==
    \/ \E r \in Requests : Request(r)
    \/ CheckLimit
    \/ Connect
    \/ Query
    \/ QueryError
    \/ Close
    \/ Respond
    \/ Finish

Spec == Init /\ [][Next]_vars


\* =================================================================== claims
BadQueryParameterBody ==
    [message |-> "Bad query parameter.", type |-> "api_error", status_code |-> 422]
NotFoundBody ==
    [message |-> "Resource not found.", type |-> "api_error", status_code |-> 404]

\* C1: a request to either weather endpoint whose limit is < 1 or > 100 is
\* answered 422, whatever created, starting_after and the station id are; when
\* the query string parses (created absent or a date) the answer is the
\* BadQueryParameterException response.
C1_LimitOutOfRangeIs422 ==
    (pc = "done" /\ req.endpoint \in WeatherEndpoints
        /\ (req.limit < 1 \/ req.limit > 100))
    => /\ response.status_code = 422
       /\ req.created # MalformedDate =>
            response = [status_code |-> 422, body |-> BadQueryParameterBody]

\* limit 101 with a date and a cursor that both match stored data: still 422
C1_Witness ==
    /\ pc = "done"
    /\ req.endpoint = "/stations/{id}/weather"
    /\ req.limit = 101
    /\ req.created \in Dates
    /\ \E i \in DOMAIN observations :
          /\ observations[i][1] = req.starting_after
          /\ observations[i][2] = req.id
          /\ DateOf(observations[i][3]) = req.created
    /\ response = [status_code |-> 422, body |-> BadQueryParameterBody]

\* C10: while a weather request whose limit is outside [1,100] is in flight,
\* and when it has been answered, no connection has been opened and no lookup
\* has been executed for it.
C10_ValidationBeforeStorage ==
    (req.endpoint \in WeatherEndpoints /\ (req.limit < 1 \/ req.limit > 100))
    => (conn = "none" /\ executed = <<>> /\ pc \in {"check_limit", "done"})

C10_Witness ==
    /\ pc = "done"
    /\ req.endpoint = "/weather"
    /\ req.limit = 0
    /\ req.created = None
    /\ response.status_code = 422
    /\ conn = "none"
    /\ executed = <<>>
    /\ Len(observations) > 0

\* C9: a finished request that acquired a connection ran exactly one lookup
\* on it and closed it, on every exit path.
C9_ConnectionClosedOnEveryExit ==
    (pc = "done" /\ conn # "none") => (conn = "closed" /\ Len(executed) = 1)

\* C8: every 404 / 422 response carries exactly message, type and status_code,
\* with status_code the HTTP status, the fixed message of its kind and type
\* "api_error" - for an out-of-range limit, a malformed date and not-found.
C8_ErrorBodyContract ==
    (pc = "done" /\ response.status_code \in {404, 422})
    => /\ DOMAIN response.body = {"message", "type", "status_code"}
       /\ response.body.status_code = response.status_code
       /\ response.body.type = "api_error"
       /\ response.status_code = 404 => response.body.message = "Resource not found."
       /\ response.status_code = 422 => response.body.message = "Bad query parameter."


\* the answer a handler gave after its lookup and conn.close()
Answered == pc = "done" /\ conn = "closed"

\* the station / observation a row stands for, field by field
IsStationOf(s, row) ==
    /\ DOMAIN s = {"id", "name", "latitude", "longitude"}
    /\ s.id = row[1] /\ s.name = row[2] /\ s.latitude = row[3] /\ s.longitude = row[4]

IsObservationOf(o, row) ==
    /\ DOMAIN o = {"id", "station_id", "observation_time"}
    /\ o.id = row[1] /\ o.station_id = row[2] /\ o.observation_time = row[3]

\* the rows are returned, materialised, in the order of the lookup
ReturnsRows ==
    /\ response.status_code = 200
    /\ IF req.endpoint = "/stations/{id}"
       THEN IsStationOf(response.body, results)
       ELSE /\ Len(response.body) = Len(results)
            /\ \A i \in DOMAIN results :
                  IF req.endpoint = "/stations"
                  THEN IsStationOf(response.body[i], results[i])
                  ELSE IsObservationOf(response.body[i], results[i])

\* C2 as stated: on each of the four endpoints, a request that got past
\* validation is answered 404 exactly when its lookup returned no row, and
\* otherwise returns every row, materialised, in storage order.
C2_NotFoundIffNoRows ==
    Answered =>
        IF results = <<>>
        THEN response = [status_code |-> 404, body |-> NotFoundBody]
        ELSE ReturnsRows

\* C2 amended: that holds on GET /weather, GET /stations/{id} and
\* GET /stations/{id}/weather; GET /stations never answers 404: it returns the
\* materialised rows in storage order with 200, an empty list when there is
\* no row.
C2_NotFoundIffNoRows_Amended ==
    Answered =>
        IF results = <<>> /\ req.endpoint # "/stations"
        THEN response = [status_code |-> 404, body |-> NotFoundBody]
        ELSE ReturnsRows

\* GET /stations on an empty stations table: 200 with an empty list
C2_Witness ==
    /\ Answered
    /\ req.endpoint = "/stations"
    /\ stations = <<>>
    /\ results = <<>>
    /\ response = [status_code |-> 200, body |-> <<>>]

\* the lookup a weather request is to run, given which parameters count as present
LookupFor(scoped, has_created, has_cursor) ==
    IF scoped
    THEN IF has_created /\ has_cursor
         THEN "get_observations_for_station_created_at_starting_after"
         ELSE IF has_cursor THEN "get_observations_for_station_starting_after"
         ELSE IF has_created THEN "get_observations_for_station_created_at"
         ELSE "get_observations_for_station"
    ELSE IF has_created /\ has_cursor
         THEN "get_observations_created_at_starting_after"
         ELSE IF has_cursor THEN "get_observations_starting_after"
         ELSE IF has_created THEN "get_observations_created_at"
         ELSE "get_observations"

\* a weather request past validation, its lookup called
LookupCalled ==
    req.endpoint \in WeatherEndpoints /\ pc \in {"close", "respond", "done"} /\ conn # "none"

\* C3 as stated: exactly one lookup is executed, the one determined by scope
\* and by which of created and starting_after the request supplies a value
\* for - the empty string for starting_after included.
C3_OneLookupBySuppliedParameters ==
    LookupCalled =>
        executed = <<LookupFor(req.endpoint = "/stations/{id}/weather",
                               req.created # None, req.starting_after # None)>>

\* C3 amended: ... starting_after counts as present when the request supplies
\* a non-empty value for it; an empty starting_after counts as absent.
C3_OneLookupByNonEmptyParameters ==
    LookupCalled =>
        executed = <<LookupFor(req.endpoint = "/stations/{id}/weather",
                               req.created # None,
                               req.starting_after # None /\ req.starting_after # "")>>

\* ?starting_after=&created=<date>: the created lookup runs, not the cursor one
C3_Witness ==
    /\ pc = "done"
    /\ req.endpoint = "/weather"
    /\ req.starting_after = ""
    /\ req.created \in Dates
    /\ executed = <<"get_observations_created_at">>
    /\ response.status_code = 200


\* ---- the pipeline scope -> date -> cursor -> limit, stated over the stored
\* ---- observations (positions in the observations table)
Scoped(r) == r.endpoint = "/stations/{id}/weather"
HasCreated(r) == r.created # None
HasCursor(r) == r.starting_after # None /\ r.starting_after # ""

\* the observations left by scope and date
Filtered(r) ==
    {i \in DOMAIN observations :
        /\ Scoped(r) => observations[i][2] = r.id
        /\ HasCreated(r) => DateOf(observations[i][3]) = r.created}

\* i comes strictly before j in the order of r's lookup: insertion (id) order,
\* or observation_time then id when the request filters by date
Before(r, i, j) ==
    IF HasCreated(r)
    THEN \/ observations[i][3] < observations[j][3]
         \/ observations[i][3] = observations[j][3] /\ i < j
    ELSE i < j

\* the starting_after of r is the id of one of the filtered observations
CursorIn(r) == \E c \in Filtered(r) : observations[c][1] = r.starting_after

\* the observations left by scope, date and cursor
Remaining(r) ==
    IF HasCursor(r)
    THEN {i \in Filtered(r) :
            \E c \in Filtered(r) :
                observations[c][1] = r.starting_after /\ Before(r, c, i)}
    ELSE Filtered(r)

\* a weather request answered with a list
ListReturned == Answered /\ req.endpoint \in WeatherEndpoints /\ response.status_code = 200

\* C4: for a weather request with 1 <= limit <= 100 and any combination of
\* scope, created and starting_after, the returned list has at most limit
\* observations and is the first limit elements, in order, of what remains
\* after scope, date and cursor: its k-th element is the remaining observation
\* that exactly k-1 remaining observations precede.
C4_LimitIsLastStep ==
    ListReturned =>
        /\ Len(response.body) <= req.limit
        /\ Len(response.body) = Min(req.limit, Cardinality(Remaining(req)))
        /\ \A k \in DOMAIN response.body :
              \E i \in Remaining(req) :
                 /\ IsObservationOf(response.body[k], observations[i])
                 /\ Cardinality({j \in Remaining(req) : Before(req, j, i)}) = k - 1

\* a station-scoped request with a date and a cursor, where the limit cuts:
\* two observations remain after the cursor and one is returned
C4_Witness ==
    /\ ListReturned
    /\ Scoped(req) /\ HasCreated(req) /\ HasCursor(req)
    /\ req.limit = 1
    /\ Cardinality(Remaining(req)) = 2
    /\ Len(response.body) = 1

\* C5: when starting_after is the id of a stored observation, the returned
\* list never contains that observation, and every returned observation comes
\* strictly after it in the order of the lookup.
C5_CursorIsExclusive ==
    (ListReturned /\ \E c \in DOMAIN observations : observations[c][1] = req.starting_after)
    => \A k \in DOMAIN response.body :
          /\ response.body[k].id # req.starting_after
          /\ \E c, i \in DOMAIN observations :
                /\ observations[c][1] = req.starting_after
                /\ observations[i][1] = response.body[k].id
                /\ Before(req, c, i)

\* a dated request whose cursor is stored later than the observation returned
\* after it (the order there is observation_time, then id)
C5_Witness ==
    /\ ListReturned
    /\ HasCreated(req)
    /\ \E c, i \in DOMAIN observations :
          /\ observations[c][1] = req.starting_after
          /\ observations[i][1] = response.body[1].id
          /\ i < c

Ids(list) == {list[k].id : k \in DOMAIN list}

\* a station-scoped request filtered by date only
ScopedCreatedOnly ==
    /\ ListReturned /\ Scoped(req) /\ req.created \in Dates /\ req.starting_after = None

\* what GET /weather?created=D&limit=L returns (the empty list standing for 404)
UnscopedCreated(D, L) == weather(None, D, L).rows

\* C6 as stated: the observations GET /stations/s/weather?created=D returns
\* are among those GET /weather?created=D returns with the same limit,
\* restricted to station_id = s.
C6_ScopedSubsetOfUnscopedSameLimit ==
    ScopedCreatedOnly =>
        Ids(response.body) \subseteq
            {r[1] : r \in {x \in {UnscopedCreated(req.created, req.limit)[k] :
                                   k \in DOMAIN UnscopedCreated(req.created, req.limit)} :
                            x[2] = req.id}}

\* C6 amended: the observations GET /stations/s/weather?created=D returns are
\* among the stored observations of date D with station_id = s; with the same
\* limit, the inclusion between the two responses holds the other way round:
\* the observations of station s that GET /weather?created=D returns are among
\* those GET /stations/s/weather?created=D returns.
C6_ScopedSubsetOfDateAndStation ==
    ScopedCreatedOnly =>
        /\ \A k \in DOMAIN response.body :
              \E i \in DOMAIN observations :
                 /\ IsObservationOf(response.body[k], observations[i])
                 /\ observations[i][2] = req.id
                 /\ DateOf(observations[i][3]) = req.created
        /\ {r[1] : r \in {x \in {UnscopedCreated(req.created, req.limit)[k] :
                                   k \in DOMAIN UnscopedCreated(req.created, req.limit)} :
                            x[2] = req.id}}
              \subseteq Ids(response.body)

\* the scoped response holds an observation the unscoped one, cut by the same
\* limit, does not
C6_Witness ==
    /\ ScopedCreatedOnly
    /\ req.limit = 1
    /\ UnscopedCreated(req.created, req.limit) # <<>>
    /\ UnscopedCreated(req.created, req.limit)[1][2] # req.id
    /\ Len(response.body) = 1

\* C7 as stated: a weather request with a valid limit whose starting_after is
\* not the id of any observation in the filtered set gets no distinct error:
\* its lookup returns zero rows and it is answered 404.
C7_UnknownCursorIsNotFound ==
    (Answered /\ req.endpoint \in WeatherEndpoints
        /\ req.starting_after # None /\ ~CursorIn(req))
    => (results = <<>> /\ response = [status_code |-> 404, body |-> NotFoundBody])

\* C7 amended: ... whose starting_after is a non-empty string that is not the
\* id of any observation in the filtered set ...  (an empty starting_after is
\* treated as no cursor at all).
C7_UnknownNonEmptyCursorIsNotFound ==
    (Answered /\ req.endpoint \in WeatherEndpoints
        /\ req.starting_after # None /\ req.starting_after # "" /\ ~CursorIn(req))
    => (results = <<>> /\ response = [status_code |-> 404, body |-> NotFoundBody])

\* a station-scoped request whose cursor is an observation of another station,
\* while the station has observations of its own
C7_Witness ==
    /\ Answered
    /\ Scoped(req)
    /\ \E c \in DOMAIN observations :
          observations[c][1] = req.starting_after /\ observations[c][2] # req.id
    /\ Filtered(req) # {}
    /\ response = [status_code |-> 404, body |-> NotFoundBody]

====
